---- MODULE Spec2Model ----
(***************************************************************************)
(* i3-ratiosplit: a daemon that listens for i3 window events and, for each *)
(* new window, splits the two children of the window's parent in the       *)
(* opposite direction and resizes the new window (src/main.rs), with its   *)
(* configuration loader (src/settings.rs).                                 *)
(***************************************************************************)
EXTENDS Integers, Sequences, FiniteSets, TLC

(* ------------------------------ bounds --------------------------------- *)

\* Largest number of nodes in a tree returned by get_tree.
MaxNodes == 4

\* Number of events read from the listener before the model stops reading.
MaxEvents == 2

(* ---------------------- i3ipc types (main.rs:7-11) --------------------- *)

NodeType == {"Root", "Output", "Con", "FloatingCon", "Workspace", "DockArea", "Unknown"}

NodeLayout == {"SplitH", "SplitV", "Stacked", "Tabbed", "DockArea", "Output", "Unknown"}

WindowChange == {"New", "Close", "Focus", "Title", "FullscreenMode", "Move",
                 "Floating", "Urgent", "Mark", "Unknown"}

\* Option<T>
None == [some |-> FALSE]

Some(v) == [some |-> TRUE, val |-> v]

\* reply::Node, the fields the program reads.
Node(id, nodetype, layout, nodes, floating_nodes) ==
    [id |-> id, nodetype |-> nodetype, layout |-> layout, nodes |-> nodes,
     floating_nodes |-> floating_nodes]

(* ------------------------- settings.rs --------------------------------- *)

\* f64 ratios are kept in hundredths.
DEFAULT_RATIO == 33

DEFAULT_LOG_PATH == "~/.config/i3/ratiosplit.log"

DEFAULT_LOG_FILE_LEVEL == "Info"

DEFAULT_LOG_CONSOLE_LEVEL == "Off"

Settings(ratio, log_file_level, log_file, log_console_level) ==
    [ratio |-> ratio, log_file_level |-> log_file_level, log_file |-> log_file,
     log_console_level |-> log_console_level]

\* str::parse::<f64>: Ok(value in hundredths) or Err.
parse_f64(s) ==
    CASE s = "0.33" -> Some(33)
      [] s = "0.5"  -> Some(50)
      [] s = "1"    -> Some(100)
      [] OTHER      -> None

\* str::parse::<LevelFilter>: the six level names, case-insensitively.
parse_level(s) ==
    CASE s \in {"off", "OFF"}     -> Some("Off")
      [] s \in {"error", "ERROR"} -> Some("Error")
      [] s \in {"warn", "WARN"}   -> Some("Warn")
      [] s \in {"info", "INFO"}   -> Some("Info")
      [] s \in {"debug", "DEBUG"} -> Some("Debug")
      [] s \in {"trace", "TRACE"} -> Some("Trace")
      [] OTHER                    -> None

\* shellexpand::full: Err when the string names an undefined variable,
\* otherwise the expanded string (a home directory of /home/u).
shellexpand_full(s) ==
    CASE s = "$UNSET/rs.log"               -> None
      [] s = "~/.config/i3/ratiosplit.log" -> Some("/home/u/.config/i3/ratiosplit.log")
      [] s = "~/rs.log"                    -> Some("/home/u/rs.log")
      [] OTHER                             -> Some(s)

\* Properties::get on the main section: a key is absent (None) or has a string.
RatioStrings == {"0.5", "abc"}

LogFileStrings == {"~/rs.log", "$UNSET/rs.log"}

LevelStrings == {"debug", "bogus"}

Opt(S) == {None} \cup {Some(s) : s \in S}

\* What Ini::load_from_file and section(Some("main")) can yield, for every
\* content of ~/.config/i3/ratiosplit.ini.
ConfFiles ==
    [loaded : {FALSE}, main : {FALSE}, ratio : {None}, log_file : {None},
     log_file_level : {None}, log_console_level : {None}]
    \cup
    [loaded : {TRUE}, main : {FALSE}, ratio : {None}, log_file : {None},
     log_file_level : {None}, log_console_level : {None}]
    \cup
    [loaded : {TRUE}, main : {TRUE}, ratio : Opt(RatioStrings),
     log_file : Opt(LogFileStrings), log_file_level : Opt(LevelStrings),
     log_console_level : Opt(LevelStrings)]

default_settings ==
    Settings(DEFAULT_RATIO, DEFAULT_LOG_FILE_LEVEL,
             shellexpand_full(DEFAULT_LOG_PATH).val, DEFAULT_LOG_CONSOLE_LEVEL)

get_level(main_section, path, default) ==
    IF ~main_section[path].some THEN default
    ELSE LET l == parse_level(main_section[path].val)
         IN  IF l.some THEN l.val ELSE default

\* Some(settings), or None when the unwrap of shellexpand::full panics.
load_settings(conf_file) ==
    IF ~conf_file.loaded THEN Some(default_settings)
    ELSE IF ~conf_file.main THEN Some(default_settings)
    ELSE LET ratio ==
                 IF conf_file.ratio.some
                 THEN LET r == parse_f64(conf_file.ratio.val)
                      IN  IF r.some THEN r.val ELSE DEFAULT_RATIO
                 ELSE DEFAULT_RATIO
             log_file ==
                 IF conf_file.log_file.some THEN conf_file.log_file.val
                 ELSE DEFAULT_LOG_PATH
             log_file_level ==
                 get_level(conf_file, "log_file_level", DEFAULT_LOG_FILE_LEVEL)
             log_console_level ==
                 get_level(conf_file, "log_console_level", DEFAULT_LOG_CONSOLE_LEVEL)
             expanded == shellexpand_full(log_file)
         IN  IF expanded.some
             THEN Some(Settings(ratio, log_file_level, expanded.val, log_console_level))
             ELSE None

(* ------------------- trees returned by get_tree ------------------------ *)

\* A tree of n nodes numbered 1..n, node 1 the root: par[k] < k is the
\* parent of node k, a node's children are listed in increasing
\* number.  Nodes that have children carry (kind, layout), the leaves are
\* plain windows.  With fl the last node hangs in its parent's
\* floating_nodes instead of nodes; with dup # 0 the last node repeats the
\* identifier of node dup, otherwise a node's identifier is its number.
TreeShapes ==
    UNION { [n : {n},
             par : {p \in [2..n -> 1..(n - 1)] : \A k \in 2..n : p[k] < k},
             kind : NodeType, layout : NodeLayout,
             fl : {FALSE}, dup : 0..(n - 1)] : n \in 1..MaxNodes }
    \cup
    UNION { [n : {n},
             par : {p \in [2..n -> 1..(n - 1)] : \A k \in 2..n : p[k] < k},
             kind : NodeType, layout : NodeLayout,
             fl : {TRUE}, dup : {0}] : n \in 2..MaxNodes }

RECURSIVE MkNode(_, _), MkNodes(_, _, _)

\* The tiled children of node k among the nodes j..n, in order.
MkNodes(s, k, j) ==
    IF j > s.n THEN <<>>
    ELSE IF s.par[j] = k /\ ~(s.fl /\ j = s.n)
         THEN <<MkNode(s, j)>> \o MkNodes(s, k, j + 1)
         ELSE MkNodes(s, k, j + 1)

MkNode(s, k) ==
    LET nodes == MkNodes(s, k, k + 1)
        floating_nodes ==
            IF s.fl /\ k < s.n /\ s.par[s.n] = k THEN <<MkNode(s, s.n)>> ELSE <<>>
        inner == nodes # <<>> \/ floating_nodes # <<>>
        id == IF k = s.n /\ s.dup # 0 THEN s.dup ELSE k
    IN  Node(id,
             IF inner THEN s.kind ELSE "Con",
             IF inner THEN s.layout ELSE "SplitH",
             nodes, floating_nodes)

\* Ok values of connection.get_tree().
Trees == {MkNode(s, 1) : s \in TreeShapes}

\* Identifiers a window event can carry: those of tree nodes and one more.
NodeIds == 1..(MaxNodes + 1)

(* --------------------- handle_child, pure parts ------------------------ *)

RECURSIVE find_parent(_, _), find_parent_from(_, _, _)

\* find_parent_from, returning what the recursion into the first child that
\* does not match gives, without looking at its later siblings.
find_parent_from_first_only(child_id, node, k) ==
    IF k > Len(node.nodes) THEN None
    ELSE LET child == node.nodes[k]
         IN  IF child.id = child_id THEN Some(node)
             ELSE find_parent(child_id, child)

\* find_parent_from, going through floating_nodes after nodes.
find_parent_from_floating(child_id, node, k) ==
    LET kids == node.nodes \o node.floating_nodes
    IN  IF k > Len(kids) THEN None
        ELSE LET child == kids[k]
             IN  IF child.id = child_id THEN Some(node)
                 ELSE LET found == find_parent(child_id, child)
                      IN  IF found.some THEN found
                          ELSE find_parent_from(child_id, node, k + 1)

\* find_parent_from, returning the child that matches instead of the node
\* that has it.
find_parent_from_child(child_id, node, k) ==
    IF k > Len(node.nodes) THEN None
    ELSE LET child == node.nodes[k]
         IN  IF child.id = child_id THEN Some(child)
             ELSE LET found == find_parent(child_id, child)
                  IN  IF found.some THEN found
                      ELSE find_parent_from(child_id, node, k + 1)

\* The loop of find_parent from the k-th child on.
find_parent_from(child_id, node, k) ==
    IF k > Len(node.nodes) THEN None
    ELSE LET child == node.nodes[k]
         IN  IF child.id = child_id THEN Some(node)
             ELSE LET found == find_parent(child_id, child)
                  IN  IF found.some THEN found
                      ELSE find_parent_from(child_id, node, k + 1)

\* find_parent, also matching the node it is called on.
find_parent_self(child_id, node) ==
    IF node.id = child_id THEN Some(node) ELSE find_parent_from(child_id, node, 1)

find_parent(child_id, node) == find_parent_from(child_id, node, 1)

\* is_split_parent without the two Workspace patterns.
is_split_parent_con_only(parent) ==
    \/ parent.nodetype = "Con" /\ parent.layout = "SplitH"
    \/ parent.nodetype = "Con" /\ parent.layout = "SplitV"

\* The matches! of handle_child: a container or workspace that splits h or v.
is_split_parent(parent) ==
    \/ parent.nodetype = "Con" /\ parent.layout = "SplitH"
    \/ parent.nodetype = "Con" /\ parent.layout = "SplitV"
    \/ parent.nodetype = "Workspace" /\ parent.layout = "SplitH"
    \/ parent.nodetype = "Workspace" /\ parent.layout = "SplitV"

resize_horizontal(parent) == parent.layout = "SplitH"

\* split_command with the two directions exchanged.
split_command_same(parent) ==
    [cmd |-> "split",
     arg |-> IF resize_horizontal(parent) THEN "horizontal" ELSE "vertical",
     id |-> 0, ppt |-> 0]

split_command(parent) ==
    [cmd |-> "split",
     arg |-> IF resize_horizontal(parent) THEN "vertical" ELSE "horizontal",
     id |-> 0, ppt |-> 0]

focus_id(node) == [cmd |-> "focus", arg |-> "", id |-> node.id, ppt |-> 0]

focus_command(new_node_id) == [cmd |-> "focus", arg |-> "", id |-> new_node_id, ppt |-> 0]

resize_command(parent) ==
    [cmd |-> "resize set",
     arg |-> IF resize_horizontal(parent) THEN "width" ELSE "height",
     id |-> 0, ppt |-> 33]

(* ----------------------------- state ----------------------------------- *)

VARIABLES
    pc,        \* where main is
    conf_file, \* the configuration file, None once load_settings has read it
    settings,  \* main's settings: None before load_settings returns
    evno,      \* number of items read from listener.listen()
    event,     \* main's event: the item read last, None before the first
    new_node,  \* handle_child's new_node (its id), None outside handle_child
    tree,      \* handle_child's tree, None outside and before get_tree returns
    i,         \* position of the loop over parent.nodes
    sent,      \* the commands passed to run_command for the current event
    acks,      \* for each of them, whether run_command returned Ok
    fetches,   \* the calls of get_tree for the current event
    result,    \* how the handling of the current event ended
    wm         \* the window manager: what the commands of the current event did

vars == <<pc, conf_file, settings, evno, event, new_node, tree, i, sent, acks,
          fetches, result, wm>>

\* What the listener's iterator yields: Ok(Event::WindowEvent(info)),
\* Ok of another event, or Err.
Events ==
    [kind : {"WindowEvent"}, change : WindowChange, id : NodeIds]
    \cup [kind : {"WorkspaceEvent", "Err"}, change : {"Unknown"}, id : {0}]

\* The window manager before the commands of an event: no node focused,
\* split or resized by the event yet.
WmStart ==
    [focused |-> 0,
     split |-> [n \in NodeIds |-> "none"],
     resized |-> [n \in NodeIds |-> "none"]]

\* i3 carrying out a command: focus makes the named node the focused one,
\* split and resize act on the focused node.
WmApply(w, c) ==
    CASE c.cmd = "focus" -> [w EXCEPT !.focused = c.id]
      [] c.cmd = "split" ->
            IF w.focused \in NodeIds
            THEN [w EXCEPT !.split[w.focused] = c.arg] ELSE w
      [] c.cmd = "resize set" ->
            IF w.focused \in NodeIds
            THEN [w EXCEPT !.resized[w.focused] = c.arg] ELSE w
      [] OTHER -> w

\* handle_child's parent, once find_parent has returned Some for the tree.
Parent == find_parent(new_node.val, tree.val).val

\* The configuration files the daemon is started with: the file is missing,
\* has no main section, or has one with any ratio, and a log_file that is
\* absent or cannot be expanded.
StartConfFiles ==
    {c \in ConfFiles : /\ c.log_file_level = None
                       /\ c.log_console_level = None
                       /\ c.log_file \in {None, Some("$UNSET/rs.log")}}

InitWith(conf_files) ==
    /\ pc = "load_settings"
    /\ conf_file \in {Some(c) : c \in conf_files}
    /\ settings = None
    /\ evno = 0
    /\ event = None
    /\ new_node = None
    /\ tree = None
    /\ i = 0
    /\ sent = <<>>
    /\ acks = <<>>
    /\ fetches = 0
    /\ result = "none"
    /\ wm = WmStart

Init == InitWith(StartConfFiles)

(* ------------------------------ main ----------------------------------- *)

\* main.rs:19-20: load_settings, whose unwrap may panic, and setup_logger.
LoadSettings ==
    /\ pc = "load_settings"
    /\ LET s == load_settings(conf_file.val)
       IN  IF s.some
           THEN settings' = s /\ pc' = "connect"
           ELSE settings' = settings /\ pc' = "panicked"
    /\ conf_file' = None
    /\ UNCHANGED <<evno, event, new_node, tree, i, sent, acks, fetches, result, wm>>

\* SetupI3Connection, connecting again when a connect fails.
SetupI3Connection_retry ==
    /\ pc = "connect"
    /\ \E connection_ok \in BOOLEAN, listener_ok \in BOOLEAN :
          IF connection_ok /\ listener_ok
          THEN pc' = "subscribe" /\ result' = result
          ELSE pc' = "connect" /\ result' = "connect_failed"
    /\ UNCHANGED <<conf_file, settings, evno, event, new_node, tree, i, sent, acks,
                   fetches, wm>>

\* main.rs:24-30 with setup_i3_connection: both connects succeed, or the
\* error is logged and main returns.
SetupI3Connection ==
    /\ pc = "connect"
    /\ \E connection_ok \in BOOLEAN, listener_ok \in BOOLEAN :
          IF connection_ok /\ listener_ok
          THEN pc' = "subscribe" /\ result' = result
          ELSE pc' = "exit" /\ result' = "connect_failed"
    /\ UNCHANGED <<conf_file, settings, evno, event, new_node, tree, i, sent, acks,
                   fetches, wm>>

\* main.rs:32-37: subscribe succeeds, or the error is logged and main returns.
Subscribe ==
    /\ pc = "subscribe"
    /\ \E ok \in BOOLEAN :
          IF ok THEN pc' = "listen" /\ result' = result
                ELSE pc' = "exit" /\ result' = "subscribe_failed"
    /\ UNCHANGED <<conf_file, settings, evno, event, new_node, tree, i, sent, acks,
                   fetches, wm>>

\* NextEvent, reading the next item wherever main is, as a listener running
\* beside the handler would.
NextEvent_any_time(e) ==
    /\ evno < MaxEvents
    /\ evno' = evno + 1
    /\ event' = Some(e)
    /\ sent' = <<>>
    /\ acks' = <<>>
    /\ fetches' = 0
    /\ wm' = WmStart
    /\ UNCHANGED <<conf_file, settings, tree, i>>

\* main.rs:39: the next item e of listener.listen() is read; what the
\* previous event left behind is gone.
NextEvent(e) ==
    /\ pc = "listen"
    /\ evno < MaxEvents
    /\ evno' = evno + 1
    /\ event' = Some(e)
    /\ sent' = <<>>
    /\ acks' = <<>>
    /\ fetches' = 0
    /\ wm' = WmStart
    /\ UNCHANGED <<conf_file, settings, tree, i>>

\* ListenNew, passing handle_child the container of the event read before
\* when there was one.
ListenNew_stale ==
    \E e \in Events :
        /\ e.kind = "WindowEvent" /\ e.change = "New"
        /\ NextEvent(e)
        /\ new_node' = IF event.some /\ event.val.kind = "WindowEvent"
                       THEN Some(event.val.id) ELSE Some(e.id)
        /\ result' = "none"
        /\ pc' = "handle_child"

\* main.rs:40-49: a window event with change New calls handle_child.
ListenNew ==
    \E e \in Events :
        /\ e.kind = "WindowEvent" /\ e.change = "New"
        /\ NextEvent(e)
        /\ new_node' = Some(e.id)
        /\ result' = "none"
        /\ pc' = "handle_child"

\* ListenIgnore, calling handle_child for the events it should ignore.
ListenIgnore_handles ==
    \E e \in Events :
        /\ e.kind = "WindowEvent" /\ e.change # "New"
        /\ NextEvent(e)
        /\ new_node' = Some(e.id)
        /\ result' = "none"
        /\ pc' = "handle_child"

\* main.rs:50-55: any other window event is traced and ignored.
ListenIgnore ==
    \E e \in Events :
        /\ e.kind = "WindowEvent" /\ e.change # "New"
        /\ NextEvent(e)
        /\ new_node' = None
        /\ result' = "ignored"
        /\ pc' = "listen"

\* ListenUnexpected, logging the item and going on with the loop.
ListenUnexpected_continue ==
    \E e \in Events :
        /\ e.kind # "WindowEvent"
        /\ NextEvent(e)
        /\ new_node' = None
        /\ result' = "unexpected"
        /\ pc' = "listen"

\* main.rs:57-60: an error or another kind of event ends main.
ListenUnexpected ==
    \E e \in Events :
        /\ e.kind # "WindowEvent"
        /\ NextEvent(e)
        /\ new_node' = None
        /\ result' = "unexpected"
        /\ pc' = "exit"

(* --------------------------- handle_child ------------------------------ *)

\* connection.run_command(c): the command is sent, and carried out by the
\* window manager when it succeeds.
RunCommand(c, ok) ==
    /\ sent' = Append(sent, c)
    /\ acks' = Append(acks, ok)
    /\ wm' = IF ok THEN WmApply(wm, c) ELSE wm

\* Return, ending main instead of going back to its loop.
Return_exit(r) ==
    /\ result' = r
    /\ pc' = "exit"
    /\ new_node' = None
    /\ tree' = None
    /\ i' = 0

\* handle_child returns to the loop of main; its locals are dropped.
Return(r) ==
    /\ result' = r
    /\ pc' = "listen"
    /\ new_node' = None
    /\ tree' = None
    /\ i' = 0

\* GetTreeErr, returning from handle_child instead of panicking.
GetTreeErr_return ==
    /\ pc = "handle_child"
    /\ fetches' = fetches + 1
    /\ Return("get_tree_failed")
    /\ UNCHANGED <<conf_file, settings, evno, event, sent, acks, wm>>

\* main.rs:103-109: get_tree fails, handle_child logs the error and panics.
GetTreeErr ==
    /\ pc = "handle_child"
    /\ fetches' = fetches + 1
    /\ result' = "get_tree_failed"
    /\ pc' = "panicked"
    /\ UNCHANGED <<conf_file, settings, evno, event, new_node, tree, i, sent, acks, wm>>

\* main.rs:103-111: get_tree succeeds.
GetTreeOk ==
    /\ pc = "handle_child"
    /\ \E t \in Trees : tree' = Some(t)
    /\ fetches' = fetches + 1
    /\ pc' = "find_parent"
    /\ UNCHANGED <<conf_file, settings, evno, event, new_node, i, sent, acks, result, wm>>

\* FindParent, with a search that does not come back when the target is not
\* in the tree.
FindParent_spin ==
    /\ pc = "find_parent"
    /\ LET found == find_parent(new_node.val, tree.val)
       IN  IF ~found.some THEN UNCHANGED <<pc, new_node, tree, i, result>>
           ELSE IF ~is_split_parent(found.val) THEN Return("not_split")
           ELSE IF Len(found.val.nodes) # 2 THEN Return("not_two")
           ELSE /\ i' = 1
                /\ pc' = IF i' <= Len(found.val.nodes) THEN "focus_child" ELSE "focus_new"
                /\ UNCHANGED <<new_node, tree, result>>
    /\ UNCHANGED <<conf_file, settings, evno, event, sent, acks, fetches, wm>>

\* main.rs:113-161 and 204-207: the parent is looked up and checked, and
\* handle_child returns or enters the loop over the children.
FindParent ==
    /\ pc = "find_parent"
    /\ LET found == find_parent(new_node.val, tree.val)
       IN  IF ~found.some THEN Return("not_found")
           ELSE IF ~is_split_parent(found.val) THEN Return("not_split")
           ELSE IF Len(found.val.nodes) # 2 THEN Return("not_two")
           ELSE /\ i' = 1
                /\ pc' = IF i' <= Len(found.val.nodes) THEN "focus_child" ELSE "focus_new"
                /\ UNCHANGED <<new_node, tree, result>>
    /\ UNCHANGED <<conf_file, settings, evno, event, sent, acks, fetches, wm>>

\* FocusChild, focusing the first child in every round of the loop.
FocusChild_first ==
    /\ pc = "focus_child"
    /\ \E ok \in BOOLEAN :
          /\ RunCommand(focus_id(Parent.nodes[1]), ok)
          /\ IF ok THEN pc' = "split_child" /\ UNCHANGED <<new_node, tree, i, result>>
                   ELSE Return("focus_child_failed")
    /\ UNCHANGED <<conf_file, settings, evno, event, fetches>>

\* main.rs:164-170: focus the i-th child.
FocusChild ==
    /\ pc = "focus_child"
    /\ \E ok \in BOOLEAN :
          /\ RunCommand(focus_id(Parent.nodes[i]), ok)
          /\ IF ok THEN pc' = "split_child" /\ UNCHANGED <<new_node, tree, i, result>>
                   ELSE Return("focus_child_failed")
    /\ UNCHANGED <<conf_file, settings, evno, event, fetches>>

\* SplitChild, fetching the tree again after the split.
SplitChild_refetch ==
    /\ pc = "split_child"
    /\ \E ok \in BOOLEAN :
          /\ RunCommand(split_command(Parent), ok)
          /\ IF ok
             THEN /\ i' = i + 1
                  /\ pc' = IF i' <= Len(Parent.nodes) THEN "focus_child" ELSE "focus_new"
                  /\ UNCHANGED <<new_node, tree, result>>
             ELSE Return("split_child_failed")
    /\ fetches' = fetches + 1
    /\ UNCHANGED <<conf_file, settings, evno, event>>

\* SplitChild, going on with the loop whatever run_command returns.
SplitChild_ignore_err ==
    /\ pc = "split_child"
    /\ \E ok \in BOOLEAN :
          /\ RunCommand(split_command(Parent), ok)
          /\ i' = i + 1
          /\ pc' = IF i' <= Len(Parent.nodes) THEN "focus_child" ELSE "focus_new"
          /\ UNCHANGED <<new_node, tree, result>>
    /\ UNCHANGED <<conf_file, settings, evno, event, fetches>>

\* main.rs:172-177: split the focused child, then go on with the loop.
SplitChild ==
    /\ pc = "split_child"
    /\ \E ok \in BOOLEAN :
          /\ RunCommand(split_command(Parent), ok)
          /\ IF ok
             THEN /\ i' = i + 1
                  /\ pc' = IF i' <= Len(Parent.nodes) THEN "focus_child" ELSE "focus_new"
                  /\ UNCHANGED <<new_node, tree, result>>
             ELSE Return("split_child_failed")
    /\ UNCHANGED <<conf_file, settings, evno, event, fetches>>

\* FocusNew, focusing the parent container instead of the new window.
FocusNew_parent ==
    /\ pc = "focus_new"
    /\ \E ok \in BOOLEAN :
          /\ RunCommand(focus_command(Parent.id), ok)
          /\ IF ok THEN pc' = "resize" /\ UNCHANGED <<new_node, tree, i, result>>
                   ELSE Return("focus_new_failed")
    /\ UNCHANGED <<conf_file, settings, evno, event, fetches>>

\* main.rs:181, 187-191: focus the new window.
FocusNew ==
    /\ pc = "focus_new"
    /\ \E ok \in BOOLEAN :
          /\ RunCommand(focus_command(new_node.val), ok)
          /\ IF ok THEN pc' = "resize" /\ UNCHANGED <<new_node, tree, i, result>>
                   ELSE Return("focus_new_failed")
    /\ UNCHANGED <<conf_file, settings, evno, event, fetches>>

\* main.rs:182-199: resize the focused window.
Resize ==
    /\ pc = "resize"
    /\ \E ok \in BOOLEAN :
          /\ RunCommand(resize_command(Parent), ok)
          /\ Return(IF ok THEN "resized" ELSE "resize_failed")
    /\ UNCHANGED <<conf_file, settings, evno, event, fetches>>

Next ==
    \/ LoadSettings
    \/ SetupI3Connection
    \/ Subscribe
    \/ ListenNew
    \/ ListenIgnore
    \/ ListenUnexpected
    \/ GetTreeErr
    \/ GetTreeOk
    \/ FindParent
    \/ FocusChild
    \/ SplitChild
    \/ FocusNew
    \/ Resize

Spec == Init /\ [][Next]_vars

\* The steps of handle_child after get_tree has returned: the code between
\* two IPC calls runs on, and each run_command returns.
HandleChildStep ==
    \/ FindParent
    \/ FocusChild
    \/ SplitChild
    \/ FocusNew
    \/ Resize

\* Each IPC call returns.  For get_tree this is stated on GetTreeErr alone:
\* GetTreeErr and GetTreeOk are enabled in the same states and either one
\* leaves them, so weak fairness of GetTreeErr says exactly that main does
\* not wait in the call forever, as weak fairness of their disjunction would.
FairSpec == Spec /\ WF_vars(GetTreeErr) /\ WF_vars(HandleChildStep)

(* ------------------------ the claims' vocabulary ----------------------- *)

RECURSIVE SubNodes(_), NodeCount(_)

\* The nodes reachable from node through the nodes lists, node included.
SubNodes(node) ==
    {node} \cup UNION {SubNodes(node.nodes[k]) : k \in 1..Len(node.nodes)}

\* The identifiers of the direct children of node in its nodes list.
ChildIds(node) == {node.nodes[k].id : k \in 1..Len(node.nodes)}

\* The identifiers of the nodes below the root t.
NonRootIds(t) == UNION {ChildIds(p) : p \in SubNodes(t)}

\* The number of nodes reachable through nodes and floating_nodes lists.
NodeCount(node) ==
    LET kids == node.nodes \o node.floating_nodes
        Sum[k \in 0..Len(kids)] == IF k = 0 THEN 0 ELSE Sum[k - 1] + NodeCount(kids[k])
    IN  1 + Sum[Len(kids)]

RECURSIVE AllIds(_)

AllIds(node) ==
    LET kids == node.nodes \o node.floating_nodes
    IN  {node.id} \cup UNION {AllIds(kids[k]) : k \in 1..Len(kids)}

\* No two nodes of t have the same identifier.
UniqueIds(t) == Cardinality(AllIds(t)) = NodeCount(t)

Focus(id) == [cmd |-> "focus", arg |-> "", id |-> id, ppt |-> 0]

Split(dir) == [cmd |-> "split", arg |-> dir, id |-> 0, ppt |-> 0]

ResizeSet(axis, ppt) == [cmd |-> "resize set", arg |-> axis, id |-> 0, ppt |-> ppt]

Opposite(layout) == IF layout = "SplitH" THEN "vertical" ELSE "horizontal"

Axis(layout) == IF layout = "SplitH" THEN "width" ELSE "height"

\* The six commands planned for an eligible parent and the new window w.
ExpectedCommands(parent, w) ==
    << Focus(parent.nodes[1].id), Split(Opposite(parent.layout)),
       Focus(parent.nodes[2].id), Split(Opposite(parent.layout)),
       Focus(w), ResizeSet(Axis(parent.layout), 33) >>

ClaimEligible(parent) ==
    /\ parent.nodetype \in {"Con", "Workspace"}
    /\ parent.layout \in {"SplitH", "SplitV"}
    /\ Len(parent.nodes) = 2

InCommands == pc \in {"focus_child", "split_child", "focus_new", "resize"}

AbortResults ==
    {"not_found", "not_split", "not_two", "focus_child_failed", "split_child_failed",
     "focus_new_failed", "resize_failed"}

(* ------------------------------ claims --------------------------------- *)

\* C1: when handle_child ends with every command successful, the commands
\* sent for the event are exactly focus(first child), split <opp>,
\* focus(second child), split <opp>, focus(new window), resize <axis> 33 ppt,
\* with <opp> = vertical and <axis> = width for a SplitH parent, horizontal
\* and height for a SplitV parent.
C1_ExactCommands ==
    [][result' = "resized" => sent' = ExpectedCommands(Parent, new_node.val)]_vars

C1_Witness ==
    /\ result = "resized"
    /\ Len(sent) = 6
    /\ sent[2].arg = "vertical"
    /\ sent[6].arg = "width"
    /\ sent[1].id # sent[3].id

\* C2: in the window manager where focus selects the named node and split and
\* resize act on the focused node, after all commands succeeded both children
\* of the parent are split opposite to the parent's orientation, the new
\* window is focused, and the new window is resized along the parent's axis.
C2_WmAfterSuccess ==
    [][result' = "resized" =>
          LET parent == Parent
              w == new_node.val
          IN  /\ wm'.split[parent.nodes[1].id] = Opposite(parent.layout)
              /\ wm'.split[parent.nodes[2].id] = Opposite(parent.layout)
              /\ wm'.focused = w
              /\ wm'.resized[w] = Axis(parent.layout)]_vars

C2_Witness ==
    /\ result = "resized"
    /\ event.val.id = 2
    /\ wm.focused = 2
    /\ wm.resized[2] = "height"
    /\ wm.split[1] = "horizontal"
    /\ wm.split[2] = "horizontal"

\* C3: the commands sent for an event are a prefix of the six planned ones,
\* each sent once and in order; every command but the last one sent has
\* succeeded, and a command that fails ends the handling of the event, so
\* nothing is sent after it.
C3_StopAtFirstFailure ==
    [][/\ Len(acks') = Len(sent')
       /\ \A k \in 1..(Len(sent') - 1) : acks'[k]
       /\ IF InCommands
          THEN LET plan == ExpectedCommands(Parent, new_node.val)
                   n == Len(sent')
               IN  /\ n = Len(sent) + 1
                   /\ n <= 6
                   /\ sent' = SubSeq(plan, 1, n)
                   /\ ~acks'[n] => pc' = "listen" /\ result' \in AbortResults
          ELSE sent' = sent \/ sent' = <<>>]_vars

C3_Witness ==
    /\ result = "split_child_failed"
    /\ pc = "listen"
    /\ sent = <<Focus(2), Split("vertical")>>
    /\ acks = <<TRUE, FALSE>>

\* C4: when the parent is found, handle_child goes on to send commands
\* exactly when the parent is a container or workspace, splits horizontally
\* or vertically and has two children; otherwise it returns having sent
\* nothing.  Once in the loop the next step sends a command.
C4_EligibleIffCommands ==
    [][/\ (pc = "find_parent" /\ find_parent(new_node.val, tree.val).some) =>
             IF ClaimEligible(find_parent(new_node.val, tree.val).val)
             THEN pc' = "focus_child" /\ tree' = tree
             ELSE pc' = "listen" /\ sent' = <<>> /\ result' \in {"not_split", "not_two"}
       /\ pc = "focus_child" => Len(sent') = 1 + Len(sent)
       /\ result \in {"not_split", "not_two"} => sent = <<>>]_vars

C4_Witness ==
    /\ result = "not_two"
    /\ pc = "listen"
    /\ sent = <<>>
    /\ fetches = 1

\* C5: in a tree with unique identifiers, a node P that has W as a direct
\* child in its nodes list is what find_parent(W, tree) returns.
C5_FindsTheParent ==
    (pc = "find_parent" /\ UniqueIds(tree.val)) =>
        \A p \in SubNodes(tree.val) :
            new_node.val \in ChildIds(p) =>
                find_parent(new_node.val, tree.val) = Some(p)

C5_Witness ==
    /\ pc = "find_parent"
    /\ UniqueIds(tree.val)
    /\ \E p \in SubNodes(tree.val) :
          /\ p # tree.val
          /\ p.id # tree.val.nodes[1].id
          /\ new_node.val \in ChildIds(p)

\* C6: when W is not the identifier of a node below the root (W is absent or
\* is the root's identifier), find_parent returns None and handle_child
\* returns without sending a command.
C6_AbsentNotFound ==
    [][/\ (pc = "find_parent" /\ new_node.val \notin NonRootIds(tree.val)) =>
             /\ ~find_parent(new_node.val, tree.val).some
             /\ result' = "not_found"
             /\ pc' = "listen"
             /\ sent' = <<>>
       /\ result = "not_found" => sent = <<>> /\ ~InCommands]_vars

C6_Witness ==
    /\ result = "not_found"
    /\ pc = "listen"
    /\ event.val.id = 1
    /\ sent = <<>>

\* C7: after a window event whose change is not New, no tree is fetched and
\* no command is sent, and main waits for the next event.
C7_OnlyNewActedOn ==
    (event.some /\ event.val.kind = "WindowEvent" /\ event.val.change # "New") =>
        /\ pc = "listen"
        /\ fetches = 0
        /\ sent = <<>>
        /\ tree = None
        /\ new_node = None

C7_Witness ==
    /\ event.some
    /\ event.val.kind = "WindowEvent"
    /\ event.val.change = "Close"
    /\ result = "ignored"
    /\ evno = 2

\* C8: the percentage of every resize command sent is the configured ratio.
C8_ResizeUsesRatio ==
    \A k \in 1..Len(sent) :
        sent[k].cmd = "resize set" => sent[k].ppt = settings.val.ratio

\* C9: when the handling of a new-window event aborts (parent not found or
\* not eligible, or a command failed) main is back at its loop; the next
\* step reads the next item of the stream, and when that is a new-window
\* event handle_child starts afresh on it, with no tree and nothing sent.
C9_AbortReturnsToLoop ==
    [][/\ result' \in AbortResults => pc' = "listen" /\ tree' = None
       /\ result \in AbortResults =>
             /\ evno' = evno + 1
             /\ fetches' = 0 /\ sent' = <<>> /\ tree' = None
             /\ (event'.val.kind = "WindowEvent" /\ event'.val.change = "New") =>
                   pc' = "handle_child" /\ new_node' = Some(event'.val.id)]_vars

C9_Witness ==
    /\ result \in {"not_found", "not_two", "resize_failed"}
    /\ pc = "listen"
    /\ evno = 1

C11_UnexpectedIsFatal ==
    [][/\ (event'.some /\ event'.val.kind # "WindowEvent") =>
             /\ pc' = "exit"
             /\ fetches' = 0 /\ sent' = <<>> /\ tree' = None /\ new_node' = None
       /\ ~(event.some /\ event.val.kind # "WindowEvent")]_vars

C11_Witness ==
    /\ event.some
    /\ event.val.kind = "Err"
    /\ pc = "exit"
    /\ evno = 1
    /\ result = "unexpected"

\* C12: when a connect or the subscription fails, main has returned without
\* having read an event, fetched a tree or sent a command, and it takes no
\* further step: nothing is retried.
C12_StartupFailureIsFatal ==
    [][/\ result' \in {"connect_failed", "subscribe_failed"} =>
             /\ pc' = "exit"
             /\ evno' = 0 /\ event' = None /\ fetches' = 0 /\ sent' = <<>>
       /\ result \notin {"connect_failed", "subscribe_failed"}]_vars

C12_Witness ==
    /\ result = "subscribe_failed"
    /\ pc = "exit"
    /\ evno = 0
    /\ settings.some

\* What C13 says load_settings returns for a configuration file: the four
\* defaults without a file or a main section, otherwise each key's value when
\* it is present and can be parsed, and that key's default when not.
ClaimLevel(v, default) ==
    IF v.some /\ parse_level(v.val).some THEN parse_level(v.val).val ELSE default

ClaimLogFile(v) ==
    IF v.some /\ shellexpand_full(v.val).some
    THEN shellexpand_full(v.val).val
    ELSE "/home/u/.config/i3/ratiosplit.log"

ClaimSettings(c) ==
    IF ~c.loaded \/ ~c.main
    THEN [ratio |-> 33, log_file |-> "/home/u/.config/i3/ratiosplit.log",
          log_file_level |-> "Info", log_console_level |-> "Off"]
    ELSE [ratio |-> IF c.ratio.some /\ parse_f64(c.ratio.val).some
                    THEN parse_f64(c.ratio.val).val ELSE 33,
          log_file |-> ClaimLogFile(c.log_file),
          log_file_level |-> ClaimLevel(c.log_file_level, "Info"),
          log_console_level |-> ClaimLevel(c.log_console_level, "Off")]

\* C13: load_settings never aborts startup: whatever the configuration file,
\* main goes on to connect with the settings C13 describes.
C13_LoadSettingsNeverAborts ==
    [][pc = "load_settings" =>
          pc' = "connect" /\ settings' = Some(ClaimSettings(conf_file.val))]_vars

\* handle_child is running.
InHandleChild == pc \in {"handle_child", "find_parent"} \/ InCommands

\* C14: an item is read from the stream only when main is at its loop with
\* no handle_child running, and items are read one after the other; a tree
\* fetch or a command is always for the event read last, whose handling is
\* running, and leaves the stream alone.
C14_RunToCompletion ==
    [][/\ evno' # evno =>
             /\ evno' = evno + 1
             /\ pc = "listen" /\ ~InHandleChild
             /\ new_node = None /\ tree = None
       /\ event' # event => evno' # evno
       /\ (fetches' > fetches \/ Len(sent') > Len(sent)) =>
             /\ InHandleChild
             /\ evno' = evno /\ event' = event
             /\ event.val.kind = "WindowEvent" /\ event.val.change = "New"
             /\ new_node = Some(event.val.id)
       /\ InHandleChild => evno' = evno /\ event' = event]_vars

C14_Witness ==
    /\ evno = 2
    /\ pc = "resize"
    /\ event.val.change = "New"
    /\ Len(sent) = 5

\* C15: handle_child starts without a tree, fetches one exactly once, before
\* any command, and does not fetch again: every command is sent with the
\* tree of its own event in hand, the children focused are children of the
\* parent found in that tree, and a handling that ends has fetched once.
C15_OneFetchPerEvent ==
    [][/\ pc = "handle_child" => tree = None /\ fetches = 0 /\ sent = <<>>
       /\ fetches' > fetches => pc = "handle_child" /\ fetches' = 1
       /\ Len(sent') > Len(sent) =>
             /\ fetches = 1 /\ fetches' = 1
             /\ tree.some /\ (tree' = tree \/ tree' = None)
       /\ pc = "focus_child" => sent'[Len(sent')].id \in ChildIds(Parent)
       /\ result' \in AbortResults \cup {"resized", "get_tree_failed"} => fetches' = 1]_vars

C15_Witness ==
    /\ evno = 2
    /\ fetches = 1
    /\ tree.some
    /\ pc = "focus_new"
    /\ Len(sent) = 4

\* The identifiers of the nodes in a floating_nodes list of t.
FloatingIds(t) ==
    UNION {{p.floating_nodes[k].id : k \in 1..Len(p.floating_nodes)} : p \in SubNodes(t)}

\* C16: when the new window's identifier is in the tree only as a floating
\* node, find_parent returns None and handle_child returns without a command.
C16_FloatingNotFound ==
    [][(/\ pc = "find_parent"
        /\ new_node.val \in FloatingIds(tree.val)
        /\ new_node.val \notin NonRootIds(tree.val)) =>
             /\ ~find_parent(new_node.val, tree.val).some
             /\ result' = "not_found"
             /\ pc' = "listen"
             /\ sent' = <<>> /\ acks' = <<>>]_vars

C16_Witness ==
    /\ pc = "find_parent"
    /\ new_node.val \in FloatingIds(tree.val)
    /\ new_node.val \notin NonRootIds(tree.val)
    /\ Len(tree.val.nodes) = 2
    /\ tree.val.layout = "SplitH"
    /\ tree.val.nodetype = "Workspace"

\* The algorithm of the specification: scan the whole nodes list for the
\* target first, and only when no child matches recurse into the children
\* in order, returning the first result that is not None.
RECURSIVE find_parent_spec(_, _)

find_parent_spec(child_id, node) ==
    IF \E k \in 1..Len(node.nodes) : node.nodes[k].id = child_id
    THEN Some(node)
    ELSE LET hits == {k \in 1..Len(node.nodes) :
                         find_parent_spec(child_id, node.nodes[k]).some}
         IN  IF hits = {} THEN None
             ELSE find_parent_spec(child_id,
                                   node.nodes[CHOOSE k \in hits : \A j \in hits : k <= j])

\* C17: on a tree with unique identifiers find_parent returns what the
\* algorithm of the specification returns, for every target.
C17_SameAsSpecAlgorithm ==
    (pc = "find_parent" /\ UniqueIds(tree.val)) =>
        \A w \in NodeIds : find_parent(w, tree.val) = find_parent_spec(w, tree.val)

\* A tree where the two orders visit differently: the target is a child of
\* the root, after a sibling that has children of its own.
C17_Witness ==
    /\ pc = "find_parent"
    /\ UniqueIds(tree.val)
    /\ Len(tree.val.nodes) >= 2
    /\ Len(tree.val.nodes[1].nodes) >= 1
    /\ tree.val.nodes[2].id = new_node.val
    /\ find_parent(new_node.val, tree.val) = Some(tree.val)

\* The command sequence as a table over the planner's inputs alone: the
\* parent's layout, the identifiers of its two children in order, and the
\* new window's identifier.
PlanOf ==
    [layout \in {"SplitH", "SplitV"}, c1 \in NodeIds, c2 \in NodeIds, w \in NodeIds |->
        << Focus(c1), Split(Opposite(layout)), Focus(c2), Split(Opposite(layout)),
           Focus(w), ResizeSet(Axis(layout), 33) >>]

\* C18: whichever event it is and whatever was handled before it, a handling
\* in which every command succeeds has sent the sequence the table gives for
\* its parent and the window of its event, so two handlings with the same
\* parent and new window send the same sequence.
C18_PlanIsFunctionOfInputs ==
    [][result' = "resized" =>
          /\ Parent.layout \in {"SplitH", "SplitV"}
          /\ Len(Parent.nodes) = 2
          /\ sent' = PlanOf[Parent.layout, Parent.nodes[1].id, Parent.nodes[2].id,
                            event.val.id]]_vars

\* The second event is handled successfully, whatever the first one was.
C18_Witness ==
    /\ evno = 2
    /\ result = "resized"
    /\ sent = PlanOf["SplitV", 2, 3, 3]

\* The number of times command c is in the sequence cmds.
Occurrences(cmds, c) == Cardinality({k \in 1..Len(cmds) : cmds[k] = c})

\* C19: while commands are sent the new window is one of the two children of
\* the parent, and every focus command sent names one of these two children;
\* when every command succeeded, the new window (the two children having
\* different identifiers) was focused twice.
C19_FocusOnlyTheChildren ==
    [][/\ InCommands =>
             /\ Len(Parent.nodes) = 2
             /\ new_node.val \in ChildIds(Parent)
             /\ \A k \in 1..Len(sent') :
                   sent'[k].cmd = "focus" => sent'[k].id \in ChildIds(Parent)
       /\ (result' = "resized" /\ Parent.nodes[1].id # Parent.nodes[2].id) =>
             Occurrences(sent', Focus(new_node.val)) = 2]_vars

C19_Witness ==
    /\ result = "resized"
    /\ event.val.id = 3
    /\ Occurrences(sent, Focus(3)) = 2
    /\ Occurrences(sent, Focus(2)) = 1
    /\ sent[1] = Focus(3)

\* C20: provided each IPC call returns, a handle_child that has started
\* comes back to the loop of main or ends the process, and at no time has
\* it fetched more than one tree or sent more than six commands.
C20_HandlingTerminates ==
    /\ [](fetches <= 1 /\ Len(sent) <= 6)
    /\ InHandleChild ~> pc \in {"listen", "panicked"}

C20_Witness ==
    /\ pc = "listen"
    /\ result = "resized"
    /\ fetches = 1
    /\ Len(sent) = 6
    /\ evno = 1

====
